---- MODULE Spec2Model ----
(***************************************************************************)
(* The network worker of the node (src/src/network/worker.rs) and the      *)
(* block types it handles (src/src/types/block.rs).                        *)
(*                                                                         *)
(* A worker thread dequeues one message, dispatches on its kind, reads or  *)
(* changes the shared chain and mempool under their mutexes, and writes    *)
(* replies to the sending peer or broadcasts to every peer.  Blocks and    *)
(* Transactions take the lock once per element of the batch, so one        *)
(* element is one step of the model; the other handlers are one step.      *)
(***************************************************************************)
EXTENDS Integers, Sequences, FiniteSets, TLC

\* ------------------------------------------------------------ bounds
MaxBatch == 2       \* blocks in one Blocks message
MaxHashes == 2      \* hashes in one NewBlockHashes / GetBlocks message
MaxDelivered == 4   \* Blocks messages a recorded run delivers
MaxOrphans == 3     \* entries of an orphan buffer the resolution loop starts on

\* ------------------------------------------------------------ H256
\* A hash is a number; the order of numbers is the order of H256.
ZeroHash == 0
RandomDifficulty == 4      \* 00000eff..ff, the target of generate_random_block
GenesisDifficulty == 6     \* 000eff..ff, the (larger) target of the genesis block

\* ------------------------------------------------------------ headers, blocks
\* Header: timestamp, merkle_root and length are left out: they only feed the
\* digest, as nonce does.
genesis_header == [parent |-> ZeroHash, nonce |-> 0, difficulty |-> GenesisDifficulty]

random_header(parent, nonce) ==
    [parent |-> parent, nonce |-> nonce, difficulty |-> RandomDifficulty]

\* SHA256 over the serialized header: injective on the headers of the model, and
\* no header digests to ZeroHash.
HeaderDigest(hd) ==
    CASE hd = genesis_header -> 7
      [] hd = random_header(7, 0) -> 1
      [] hd = random_header(1, 0) -> 2
      [] hd = random_header(2, 0) -> 4
      [] hd = random_header(7, 1) -> 3
      [] hd = random_header(7, 2) -> 5

Headers ==
    { genesis_header, random_header(7, 0), random_header(1, 0), random_header(2, 0),
      random_header(7, 1), random_header(7, 2) }

\* Hashable for Block: the header's hash; the content takes no part.
hash(block) == HeaderDigest(block.header)

get_parent(block) == block.header.parent

get_difficulty(block) == block.header.difficulty

\* ------------------------------------------------------------ transactions
\* Address::from_public_key_bytes
AddressOf(pk) == IF pk = "pkA" THEN "A" ELSE "U"

Transaction(receiver, value, account_nonce) ==
    [receiver |-> receiver, value |-> value, account_nonce |-> account_nonce]

\* An Ed25519 signature is the pair of the signed bytes and the signing key.
sign(t, key) == [signed |-> t, by |-> key]

SignedTransaction(t, pk, sig) ==
    [t |-> t, signer_public_key |-> pk, signature_vector |-> sig]

tx1 == SignedTransaction(Transaction("B", 1, 1), "pkA", sign(Transaction("B", 1, 1), "pkA"))
tx2 == SignedTransaction(Transaction("B", 1, 2), "pkA", sign(Transaction("B", 1, 2), "pkA"))
txBig == SignedTransaction(Transaction("B", 3, 1), "pkA", sign(Transaction("B", 3, 1), "pkA"))
txBadSig == SignedTransaction(Transaction("B", 1, 1), "pkA", sign(Transaction("B", 2, 1), "pkA"))
txUnknown == SignedTransaction(Transaction("B", 1, 1), "pkU", sign(Transaction("B", 1, 1), "pkU"))

TxPool == <<tx1, tx2, txBig, txBadSig, txUnknown>>

SignedTransactions == { TxPool[i] : i \in 1 .. Len(TxPool) }

\* Hashable for SignedTransaction: SHA256 over the whole signed transaction.
TxDigest(stx) == CHOOSE i \in 1 .. Len(TxPool) : TxPool[i] = stx

verify_forgets_message(t, public_key, signature) == signature.by = public_key

\* worker.rs:305-311

verify(t, public_key, signature) ==
    signature.by = public_key /\ signature.signed = t

\* ------------------------------------------------------------ inputs
SeqsUpTo(S, n) == UNION { [1 .. k -> S] : k \in 0 .. n }

Block(header, content) == [header |-> header, content |-> content]

\* Transaction lists a peer may put into a block: every single transaction, and
\* two transactions of one sender with the same and with successive nonces.
Contents ==
    { <<>>, <<tx1>>, <<tx2>>, <<txBig>>, <<txBadSig>>, <<txUnknown>>,
      <<tx1, tx1>>, <<tx1, tx2>> }

\* The blocks peers send to the node of Spec: a child of the genesis block with
\* every content, a child of that child, a block that fails its proof of work,
\* and the genesis block itself.
SyncBlocks ==
    { Block(random_header(7, 0), c) : c \in Contents }
    \cup { Block(random_header(1, 0), c) : c \in { <<>>, <<tx2>>, <<tx1>> } }
    \cup { Block(random_header(7, 2), c) : c \in { <<>>, <<tx1>>, <<txBadSig>> } }
    \cup { Block(genesis_header, <<>>) }

\* The transactions peers send to the node of Spec.
SyncTransactions == { tx1, tx2, txBadSig }

\* The hash lists peers send to the node of Spec: hashes of blocks of SyncBlocks
\* and a hash of no block.
SyncHashLists == SeqsUpTo({ 1, 2, 3, 5, 7 }, MaxHashes)

\* ------------------------------------------------------------ maps
\* HashMap::insert: an entry under key k, replacing the one that was there.
Put(f, k, v) == [x \in (DOMAIN f) \cup {k} |-> IF x = k THEN v ELSE f[x]]

\* HashMap::remove
Remove(f, k) == [x \in (DOMAIN f) \ {k} |-> f[x]]

EmptyMap == [x \in {} |-> 0]

\* ------------------------------------------------------------ chain (Blockchain)
InitBalance == 2         \* balance of account A in the genesis state
BalanceModulus == 8      \* balances are fixed-width unsigned integers

genesis_block == [header |-> genesis_header, content |-> <<>>]

genesis_state == [a \in {"A"} |-> <<0, InitBalance>>]

\* One transaction applied to a state snapshot: the sender's nonce advances and
\* the value moves from the sender to the receiver.
apply_transaction(st, stx) ==
    LET sender == AddressOf(stx.signer_public_key)
        receiver == stx.t.receiver
        value == stx.t.value
        debited ==
            IF sender \in DOMAIN st
            THEN [st EXCEPT ![sender] =
                     <<@[1] + 1, (@[2] + BalanceModulus - value) % BalanceModulus>>]
            ELSE st
    IN  IF receiver \in DOMAIN debited
        THEN [debited EXCEPT ![receiver] = <<@[1], (@[2] + value) % BalanceModulus>>]
        ELSE Put(debited, receiver, <<0, value % BalanceModulus>>)

RECURSIVE apply_transactions(_, _)
apply_transactions(st, txs) ==
    IF txs = <<>> THEN st
    ELSE apply_transactions(apply_transaction(st, Head(txs)), Tail(txs))

\* Blockchain::new: the genesis block alone, with its state snapshot.
new_blockchain ==
    [hash_map |-> Put(EmptyMap, HeaderDigest(genesis_header), genesis_block),
     state_map |-> Put(EmptyMap, HeaderDigest(genesis_header), genesis_state),
     height_map |-> Put(EmptyMap, HeaderDigest(genesis_header), 0),
     tip |-> HeaderDigest(genesis_header)]

\* insert needs the parent's snapshot and height; without them the lookup fails
\* and the thread panics.
insert_panics(blockchain, block) ==
    get_parent(block) \notin DOMAIN blockchain.state_map

\* Blockchain::insert: stores the block, derives its state snapshot from the
\* parent's, and moves the tip when the new block is higher.
insert(blockchain, block) ==
    LET h == hash(block)
        p == get_parent(block)
        height == blockchain.height_map[p] + 1
    IN  [hash_map |-> Put(blockchain.hash_map, h, block),
         state_map |-> Put(blockchain.state_map, h,
                           apply_transactions(blockchain.state_map[p], block.content)),
         height_map |-> Put(blockchain.height_map, h, height),
         tip |-> IF height > blockchain.height_map[blockchain.tip]
                 THEN h ELSE blockchain.tip]

\* Blockchain::tip
tip(blockchain) == blockchain.tip

\* ------------------------------------------------------------ validation
pow_passed_reversed(block) == hash(block) >= get_difficulty(block)

\* worker.rs:124
pow_passed(block) == hash(block) <= get_difficulty(block)

transaction_valid_stale_nonce(state_copy, signed_transaction) ==
    LET sender == AddressOf(signed_transaction.signer_public_key)
        amount == signed_transaction.t.value
        nonce == signed_transaction.t.account_nonce
    IN  /\ verify(signed_transaction.t, signed_transaction.signer_public_key,
                  signed_transaction.signature_vector)
        /\ sender \in DOMAIN state_copy
        /\ ~(amount > state_copy[sender][2] \/ nonce # state_copy[sender][1])

transaction_valid_no_balance(state_copy, signed_transaction) ==
    LET sender == AddressOf(signed_transaction.signer_public_key)
        nonce == signed_transaction.t.account_nonce
    IN  /\ verify(signed_transaction.t, signed_transaction.signer_public_key,
                  signed_transaction.signature_vector)
        /\ sender \in DOMAIN state_copy
        /\ ~(nonce # state_copy[sender][1] + 1)

\* worker.rs:146-166, one turn of the loop over the block's transactions: the
\* signature, then the sender's entry in the parent's snapshot, its balance and
\* its nonce.
transaction_valid(state_copy, signed_transaction) ==
    LET sender == AddressOf(signed_transaction.signer_public_key)
        amount == signed_transaction.t.value
        nonce == signed_transaction.t.account_nonce
    IN  /\ verify(signed_transaction.t, signed_transaction.signer_public_key,
                  signed_transaction.signature_vector)
        /\ sender \in DOMAIN state_copy
        /\ ~(amount > state_copy[sender][2] \/ nonce # state_copy[sender][1] + 1)

\* worker.rs:142-167: state_copy is the parent's snapshot for every transaction
\* of the block; the loop never writes to it.
all_transactions_valid(state_copy, signed_transactions) ==
    \A i \in 1 .. Len(signed_transactions) :
        transaction_valid(state_copy, signed_transactions[i])

\* ------------------------------------------------------------ mempool
update_mempool_keeps_stale(mempool, block, blockchain) ==
    LET confirmed == { TxDigest(block.content[i]) : i \in 1 .. Len(block.content) }
    IN  [h \in (DOMAIN mempool) \ confirmed |-> mempool[h]]

\* worker.rs:174-195: the block's transactions leave the mempool, then every
\* entry whose nonce is below its sender's nonce in the tip's snapshot.
update_mempool(mempool, block, blockchain) ==
    LET confirmed == { TxDigest(block.content[i]) : i \in 1 .. Len(block.content) }
        new_state_copy == blockchain.state_map[tip(blockchain)]
        stale(stx) ==
            LET sender == AddressOf(stx.signer_public_key)
            IN  /\ sender \in DOMAIN new_state_copy
                /\ stx.t.account_nonce < new_state_copy[sender][1]
        keep == { h \in (DOMAIN mempool) \ confirmed : ~stale(mempool[h]) }
    IN  [h \in keep |-> mempool[h]]

resolve_orphans_once(blockchain, buffer, hashes, parent_hash) ==
    IF parent_hash \notin DOMAIN buffer
    THEN [blockchain |-> blockchain, orphanbuffer |-> buffer,
          new_hashes |-> hashes, panicked |-> FALSE]
    ELSE LET selected_block == buffer[parent_hash]
         IN  IF insert_panics(blockchain, selected_block)
             THEN [blockchain |-> blockchain, orphanbuffer |-> buffer,
                   new_hashes |-> hashes, panicked |-> TRUE]
             ELSE [blockchain |-> insert(blockchain, selected_block),
                   orphanbuffer |-> Remove(buffer, parent_hash),
                   new_hashes |-> Append(hashes, hash(selected_block)),
                   panicked |-> FALSE]

\* ------------------------------------------------------------ orphan buffer
\* worker.rs:205-216: while the buffer has an entry under parent_hash, insert
\* that block into the chain, report its hash, go on from its hash and drop the
\* entry.
RECURSIVE resolve_orphans(_, _, _, _)
resolve_orphans(blockchain, buffer, hashes, parent_hash) ==
    IF parent_hash \notin DOMAIN buffer
    THEN [blockchain |-> blockchain, orphanbuffer |-> buffer,
          new_hashes |-> hashes, panicked |-> FALSE]
    ELSE LET selected_block == buffer[parent_hash]
         IN  IF insert_panics(blockchain, selected_block)
             THEN [blockchain |-> blockchain, orphanbuffer |-> buffer,
                   new_hashes |-> hashes, panicked |-> TRUE]
             ELSE resolve_orphans(insert(blockchain, selected_block),
                                  Remove(buffer, parent_hash),
                                  Append(hashes, hash(selected_block)),
                                  hash(selected_block))

\* ------------------------------------------------------------ messages
Message(type, payload) == [type |-> type, payload |-> payload]

\* ------------------------------------------------------------ handlers
missing_hashes_unfiltered(blockchain, hashes) == hashes

\* worker.rs:91-96: the hashes of hashvec that are not keys of the chain.
missing_hashes(blockchain, hashes) ==
    SelectSeq(hashes, LAMBDA h : h \notin DOMAIN blockchain.hash_map)

stored_blocks_first_only(blockchain, hashes) ==
    LET found == SelectSeq(hashes, LAMBDA h : h \in DOMAIN blockchain.hash_map)
    IN  IF found = <<>> THEN <<>> ELSE <<blockchain.hash_map[found[1]]>>

\* worker.rs:106-111: the stored block of every hash of hashvec that is a key of
\* the chain, in the order of hashvec.
RECURSIVE stored_blocks(_, _)
stored_blocks(blockchain, hashes) ==
    IF hashes = <<>> THEN <<>>
    ELSE IF Head(hashes) \in DOMAIN blockchain.hash_map
         THEN <<blockchain.hash_map[Head(hashes)]>> \o stored_blocks(blockchain, Tail(hashes))
         ELSE stored_blocks(blockchain, Tail(hashes))

missing_transactions_unfiltered(mempool, hashes) == hashes

\* worker.rs:246-251
missing_transactions(mempool, hashes) ==
    SelectSeq(hashes, LAMBDA h : h \notin DOMAIN mempool)

\* worker.rs:261-266
RECURSIVE pooled_transactions(_, _)
pooled_transactions(mempool, hashes) ==
    IF hashes = <<>> THEN <<>>
    ELSE IF Head(hashes) \in DOMAIN mempool
         THEN <<mempool[Head(hashes)]>> \o pooled_transactions(mempool, Tail(hashes))
         ELSE pooled_transactions(mempool, Tail(hashes))

\* worker.rs:98-100, 113-115, 253-255, 268-270: a reply is written only when it
\* has something in it.
reply_if_any(type, payload) ==
    IF Len(payload) > 0 THEN <<Message(type, payload)>> ELSE <<>>

not_stored_unchecked(blockchain, block) == TRUE

\* worker.rs:134: the block is not stored yet.
not_stored(blockchain, block) == hash(block) \notin DOMAIN blockchain.hash_map

\* worker.rs:137: the block's parent is stored.
parent_stored(blockchain, block) == get_parent(block) \in DOMAIN blockchain.hash_map

\* worker.rs:134-176: the turn reaches the mempool lock when it inserts the block.
NeedsMempool(blockchain, block) ==
    /\ not_stored(blockchain, block)
    /\ pow_passed(block)
    /\ parent_stored(blockchain, block)
    /\ all_transactions_valid(blockchain.state_map[get_parent(block)], block.content)
handle_block_buffers_orphans(blockchain, mempool, buffer, hashes, parents, block) ==
    LET same == [blockchain |-> blockchain, mempool |-> mempool, orphanbuffer |-> buffer,
                 new_hashes |-> hashes, parent_vec |-> parents, panicked |-> FALSE]
    IN  IF not_stored(blockchain, block) /\ pow_passed(block)
        THEN IF parent_stored(blockchain, block)
             THEN IF all_transactions_valid(blockchain.state_map[get_parent(block)],
                                            block.content)
                  THEN LET inserted == insert(blockchain, block)
                           r == resolve_orphans(inserted, buffer,
                                                Append(hashes, hash(block)), hash(block))
                       IN  [same EXCEPT !.blockchain = r.blockchain,
                                        !.mempool = update_mempool(mempool, block, inserted),
                                        !.orphanbuffer = r.orphanbuffer,
                                        !.new_hashes = r.new_hashes,
                                        !.panicked = r.panicked]
                  ELSE same
             ELSE LET r == resolve_orphans(blockchain, Put(buffer, get_parent(block), block),
                                                hashes, hash(block))
                  IN  [same EXCEPT !.blockchain = r.blockchain,
                                   !.orphanbuffer = r.orphanbuffer,
                                   !.new_hashes = r.new_hashes,
                                   !.parent_vec = Append(parents, get_parent(block)),
                                   !.panicked = r.panicked]
        ELSE IF pow_passed(block)
             THEN [same EXCEPT !.orphanbuffer = Put(buffer, get_parent(block), block),
                               !.parent_vec = Append(parents, get_parent(block))]
             ELSE same

\* worker.rs:122-224, one turn of the loop over blockvec, under the chain lock
\* (and, inside it, the mempool lock).
handle_block(blockchain, mempool, buffer, hashes, parents, block) ==
    LET same == [blockchain |-> blockchain, mempool |-> mempool, orphanbuffer |-> buffer,
                 new_hashes |-> hashes, parent_vec |-> parents, panicked |-> FALSE]
    IN  IF not_stored(blockchain, block) /\ pow_passed(block)
        THEN IF parent_stored(blockchain, block)
             THEN IF all_transactions_valid(blockchain.state_map[get_parent(block)],
                                            block.content)
                  THEN LET inserted == insert(blockchain, block)
                           r == resolve_orphans(inserted, buffer,
                                                Append(hashes, hash(block)), hash(block))
                       IN  [same EXCEPT !.blockchain = r.blockchain,
                                        !.mempool = update_mempool(mempool, block, inserted),
                                        !.orphanbuffer = r.orphanbuffer,
                                        !.new_hashes = r.new_hashes,
                                        !.panicked = r.panicked]
                  ELSE same
             ELSE LET r == resolve_orphans(blockchain, buffer, hashes, hash(block))
                  IN  [same EXCEPT !.blockchain = r.blockchain,
                                   !.orphanbuffer = r.orphanbuffer,
                                   !.new_hashes = r.new_hashes,
                                   !.panicked = r.panicked]
        ELSE IF pow_passed(block)
             THEN [same EXCEPT !.orphanbuffer = Put(buffer, get_parent(block), block),
                               !.parent_vec = Append(parents, get_parent(block))]
             ELSE same

handle_transaction_ignores_signature(mempool, hashes, signed_transaction) ==
    IF TxDigest(signed_transaction) \notin DOMAIN mempool
    THEN [mempool |-> Put(mempool, TxDigest(signed_transaction), signed_transaction),
          new_hashes |-> Append(hashes, TxDigest(signed_transaction))]
    ELSE [mempool |-> mempool, new_hashes |-> hashes]

\* worker.rs:276-293, one turn of the loop over the transactions, under the
\* mempool lock.
handle_transaction(mempool, hashes, signed_transaction) ==
    LET signature_is_valid ==
            verify(signed_transaction.t, signed_transaction.signer_public_key,
                   signed_transaction.signature_vector)
    IN  IF TxDigest(signed_transaction) \notin DOMAIN mempool /\ signature_is_valid
        THEN [mempool |-> Put(mempool, TxDigest(signed_transaction), signed_transaction),
              new_hashes |-> Append(hashes, TxDigest(signed_transaction))]
        ELSE [mempool |-> mempool, new_hashes |-> hashes]

\* ------------------------------------------------------------ state
Workers == {1, 2}            \* the thread ids a node may run
num_worker == 1              \* Worker::new(1, ...) of generate_test_worker_and_start

VARIABLES
    wrapped_blockchain,      \* Arc<Mutex<Blockchain>>
    wrapped_mempool,         \* Arc<Mutex<Mempool>>: hash_map
    orphanbuffer,            \* per worker: parent hash -> block
    pc,                      \* per worker: "recv", or the kind of the message in hand
    hashvec,                 \* per worker: the hash list of the message in hand
    blockvec_len,            \* per worker: the length of the batch in hand
    remaining,               \* per worker: elements of the batch the loop has not reached
    block,                   \* per worker: the block of the loop's turn (<<>> or <<b>>)
    signed_transaction,      \* per worker: the transaction of the loop's turn
    new_hashes,              \* per worker: local of the Blocks / Transactions handler
    parent_vec,              \* per worker: local of the Blocks handler
    peer_out,                \* per worker: written to the peer by the handler in hand
    server_out,              \* per worker: broadcast by the handler in hand
    history,                 \* the Blocks messages handled and the hashes broadcast
    locks,                   \* the holders of the chain lock and of the mempool lock
    msg_chan                 \* the inbound queue: "open", or "closed" and drained

vars == <<wrapped_blockchain, wrapped_mempool, orphanbuffer, pc, hashvec, blockvec_len,
          remaining, block, signed_transaction, new_hashes, parent_vec, peer_out,
          server_out, history, locks, msg_chan>>

shared == <<wrapped_blockchain, wrapped_mempool>>

batch == <<blockvec_len, remaining, block, signed_transaction, new_hashes, parent_vec>>

HashKinds == {"NewBlockHashes", "GetBlocks", "NewTransactionHashes", "GetTransactions"}

\* The record of what the node has been sent and has broadcast; a node that
\* keeps no record never changes it.
Unlogged == [on |-> FALSE, delivered |-> <<>>, reported |-> {}]

Logged == [on |-> TRUE, delivered |-> <<>>, reported |-> {}]

Opened(h) == IF h.on THEN [h EXCEPT !.delivered = Append(@, <<>>)] ELSE h

Delivered(h, b) ==
    IF h.on THEN [h EXCEPT !.delivered[Len(h.delivered)] = Append(@, b)] ELSE h

Reported(h, hashes) ==
    IF h.on THEN [h EXCEPT !.reported = @ \cup { hashes[i] : i \in 1 .. Len(hashes) }]
    ELSE h

\* The two mutexes: the thread that holds each, or 0.  A node whose critical
\* sections are single steps never shows a lock held.
Unlocked == [on |-> FALSE, chain |-> 0, mempool |-> 0]

Lockable == [on |-> TRUE, chain |-> 0, mempool |-> 0]

\* The critical section of worker w may run: w holds the lock.
Holds(w, lock) == ~locks.on \/ locks[lock] = w

\* The guards go out of scope: every lock worker w holds is free again.
Released(l, w) ==
    [l EXCEPT !.chain = IF @ = w THEN 0 ELSE @, !.mempool = IF @ = w THEN 0 ELSE @]

Start(h, l) ==
    /\ wrapped_blockchain = new_blockchain
    /\ wrapped_mempool = EmptyMap
    /\ orphanbuffer = [w \in Workers |-> EmptyMap]
    /\ pc = [w \in Workers |-> "recv"]
    /\ hashvec = [w \in Workers |-> <<>>]
    /\ blockvec_len = [w \in Workers |-> 0]
    /\ remaining = [w \in Workers |-> 0]
    /\ block = [w \in Workers |-> <<>>]
    /\ signed_transaction = [w \in Workers |-> <<>>]
    /\ new_hashes = [w \in Workers |-> <<>>]
    /\ parent_vec = [w \in Workers |-> <<>>]
    /\ peer_out = [w \in Workers |-> <<>>]
    /\ server_out = [w \in Workers |-> <<>>]
    /\ history = h
    /\ locks = l
    /\ msg_chan = "open"

Init == Start(Unlogged, Unlocked)

\* worker.rs:70-79: the next message leaves the queue and is decoded.
Receive(w, kind) ==
    /\ pc[w] = "recv"
    /\ msg_chan = "open"
    /\ pc' = [pc EXCEPT ![w] = kind]
    /\ UNCHANGED <<shared, orphanbuffer, new_hashes, parent_vec, peer_out, server_out,
                   msg_chan>>

ReceivePing(w) ==
    /\ \E kind \in {"Ping", "Pong"} : Receive(w, kind)
    /\ UNCHANGED <<hashvec, blockvec_len, remaining, block, signed_transaction, history, locks>>

ReceiveHashes(w, lists) ==
    /\ \E kind \in HashKinds : Receive(w, kind)
    /\ \E hashes \in lists : hashvec' = [hashvec EXCEPT ![w] = hashes]
    /\ UNCHANGED <<blockvec_len, remaining, block, signed_transaction, history, locks>>

\* worker.rs:118-120: a batch of blocks; the blocks themselves are drawn one by
\* one as the loop reaches them.
ReceiveBlocks(w, sizes) ==
    /\ Receive(w, "Blocks")
    /\ Len(history.delivered) < MaxDelivered
    /\ \E n \in sizes :
        /\ blockvec_len' = [blockvec_len EXCEPT ![w] = n]
        /\ remaining' = [remaining EXCEPT ![w] = n]
    /\ history' = Opened(history)
    /\ UNCHANGED <<hashvec, block, signed_transaction, locks>>

\* worker.rs:272-273: a batch of transactions, drawn one by one likewise.
ReceiveTransactions(w, sizes) ==
    /\ Receive(w, "Transactions")
    /\ \E n \in sizes :
        /\ blockvec_len' = [blockvec_len EXCEPT ![w] = n]
        /\ remaining' = [remaining EXCEPT ![w] = n]
    /\ UNCHANGED <<hashvec, block, signed_transaction, history, locks>>

\* worker.rs:80-86
Ping(w) ==
    /\ pc[w] \in {"Ping", "Pong"}
    /\ peer_out' = [peer_out EXCEPT ![w] =
                       IF pc[w] = "Ping" THEN <<Message("Pong", <<>>)>> ELSE <<>>]
    /\ pc' = [pc EXCEPT ![w] = "done"]
    /\ UNCHANGED <<shared, orphanbuffer, hashvec, batch, server_out, history, locks>>
    /\ UNCHANGED msg_chan

\* worker.rs:87-101
NewBlockHashes(w) ==
    /\ pc[w] = "NewBlockHashes"
    /\ Holds(w, "chain")
    /\ peer_out' = [peer_out EXCEPT ![w] =
                       reply_if_any("GetBlocks",
                                    missing_hashes(wrapped_blockchain, hashvec[w]))]
    /\ pc' = [pc EXCEPT ![w] = "done"]
    /\ UNCHANGED <<shared, orphanbuffer, hashvec, batch, server_out, history>>
    /\ locks' = Released(locks, w)
    /\ UNCHANGED msg_chan

\* worker.rs:102-116
GetBlocks(w) ==
    /\ pc[w] = "GetBlocks"
    /\ Holds(w, "chain")
    /\ peer_out' = [peer_out EXCEPT ![w] =
                       reply_if_any("Blocks",
                                    stored_blocks(wrapped_blockchain, hashvec[w]))]
    /\ pc' = [pc EXCEPT ![w] = "done"]
    /\ UNCHANGED <<shared, orphanbuffer, hashvec, batch, server_out, history>>
    /\ locks' = Released(locks, w)
    /\ UNCHANGED msg_chan

\* worker.rs:122-225: one turn of the loop over blockvec; block is the block of
\* this turn.
BlockStep(w, blocks) ==
    /\ pc[w] = "Blocks"
    /\ remaining[w] > 0
    /\ Holds(w, "chain")
    /\ \E b \in blocks :
        LET r == handle_block(wrapped_blockchain, wrapped_mempool, orphanbuffer[w],
                              new_hashes[w], parent_vec[w], b)
        IN  /\ block' = [block EXCEPT ![w] = <<b>>]
            /\ wrapped_blockchain' = r.blockchain
            /\ wrapped_mempool' = r.mempool
            /\ orphanbuffer' = [orphanbuffer EXCEPT ![w] = r.orphanbuffer]
            /\ new_hashes' = [new_hashes EXCEPT ![w] = r.new_hashes]
            /\ parent_vec' = [parent_vec EXCEPT ![w] = r.parent_vec]
            /\ pc' = [pc EXCEPT ![w] = IF r.panicked THEN "exited" ELSE @]
            /\ NeedsMempool(wrapped_blockchain, b) => Holds(w, "mempool")
            /\ history' = Delivered(history, b)
    /\ remaining' = [remaining EXCEPT ![w] = @ - 1]
    /\ locks' = Released(locks, w)
    /\ UNCHANGED <<hashvec, blockvec_len, signed_transaction, peer_out, server_out>>
    /\ UNCHANGED msg_chan

BlocksDone_before_end(w) ==
    /\ pc[w] = "Blocks"
    /\ peer_out' = [peer_out EXCEPT ![w] = reply_if_any("GetBlocks", parent_vec[w])]
    /\ server_out' = [server_out EXCEPT ![w] = reply_if_any("NewBlockHashes", new_hashes[w])]
    /\ pc' = [pc EXCEPT ![w] = "done"]
    /\ history' = Reported(history, new_hashes[w])
    /\ UNCHANGED <<shared, orphanbuffer, hashvec, batch, locks>>
    /\ UNCHANGED msg_chan

\* worker.rs:227-239: after the batch, GetBlocks to the peer for the collected
\* parents and NewBlockHashes to everyone for the accepted hashes.
BlocksDone(w) ==
    /\ pc[w] = "Blocks"
    /\ remaining[w] = 0
    /\ peer_out' = [peer_out EXCEPT ![w] = reply_if_any("GetBlocks", parent_vec[w])]
    /\ server_out' = [server_out EXCEPT ![w] = reply_if_any("NewBlockHashes", new_hashes[w])]
    /\ pc' = [pc EXCEPT ![w] = "done"]
    /\ history' = Reported(history, new_hashes[w])
    /\ UNCHANGED <<shared, orphanbuffer, hashvec, batch, locks>>
    /\ UNCHANGED msg_chan

\* worker.rs:241-256
NewTransactionHashes(w) ==
    /\ pc[w] = "NewTransactionHashes"
    /\ Holds(w, "mempool")
    /\ peer_out' = [peer_out EXCEPT ![w] =
                       reply_if_any("GetTransactions",
                                    missing_transactions(wrapped_mempool, hashvec[w]))]
    /\ pc' = [pc EXCEPT ![w] = "done"]
    /\ UNCHANGED <<shared, orphanbuffer, hashvec, batch, server_out, history>>
    /\ locks' = Released(locks, w)
    /\ UNCHANGED msg_chan

\* worker.rs:257-271
GetTransactions(w) ==
    /\ pc[w] = "GetTransactions"
    /\ Holds(w, "mempool")
    /\ peer_out' = [peer_out EXCEPT ![w] =
                       reply_if_any("Transactions",
                                    pooled_transactions(wrapped_mempool, hashvec[w]))]
    /\ pc' = [pc EXCEPT ![w] = "done"]
    /\ UNCHANGED <<shared, orphanbuffer, hashvec, batch, server_out, history>>
    /\ locks' = Released(locks, w)
    /\ UNCHANGED msg_chan

\* worker.rs:276-294: one turn of the loop over the transactions;
\* signed_transaction is the transaction of this turn.
TransactionStep(w, transactions) ==
    /\ pc[w] = "Transactions"
    /\ Holds(w, "mempool")
    /\ remaining[w] > 0
    /\ \E t \in transactions :
        LET r == handle_transaction(wrapped_mempool, new_hashes[w], t)
        IN  /\ signed_transaction' = [signed_transaction EXCEPT ![w] = <<t>>]
            /\ wrapped_mempool' = r.mempool
            /\ new_hashes' = [new_hashes EXCEPT ![w] = r.new_hashes]
    /\ remaining' = [remaining EXCEPT ![w] = @ - 1]
    /\ UNCHANGED <<wrapped_blockchain, orphanbuffer, pc, hashvec, blockvec_len, block,
                   parent_vec, peer_out, server_out, history>>
    /\ locks' = Released(locks, w)
    /\ UNCHANGED msg_chan

\* worker.rs:295-297
TransactionsDone(w) ==
    /\ pc[w] = "Transactions"
    /\ remaining[w] = 0
    /\ server_out' = [server_out EXCEPT ![w] =
                         reply_if_any("NewTransactionHashes", new_hashes[w])]
    /\ pc' = [pc EXCEPT ![w] = "done"]
    /\ UNCHANGED <<shared, orphanbuffer, hashvec, batch, peer_out, history, locks>>
    /\ UNCHANGED msg_chan

\* worker.rs:69: the end of one turn of the loop; the message, the handler's
\* locals and what it wrote belong to the turn.
Loop(w) ==
    /\ pc[w] = "done"
    /\ pc' = [pc EXCEPT ![w] = "recv"]
    /\ hashvec' = [hashvec EXCEPT ![w] = <<>>]
    /\ blockvec_len' = [blockvec_len EXCEPT ![w] = 0]
    /\ new_hashes' = [new_hashes EXCEPT ![w] = <<>>]
    /\ parent_vec' = [parent_vec EXCEPT ![w] = <<>>]
    /\ block' = [block EXCEPT ![w] = <<>>]
    /\ signed_transaction' = [signed_transaction EXCEPT ![w] = <<>>]
    /\ peer_out' = [peer_out EXCEPT ![w] = <<>>]
    /\ server_out' = [server_out EXCEPT ![w] = <<>>]
    /\ UNCHANGED <<shared, orphanbuffer, remaining, history, locks>>
    /\ UNCHANGED msg_chan

Step(w, blocks, transactions, lists) ==
    \/ ReceivePing(w)
    \/ ReceiveHashes(w, lists)
    \/ ReceiveBlocks(w, 0 .. MaxBatch)
    \/ ReceiveTransactions(w, 0 .. MaxBatch)
    \/ Ping(w)
    \/ NewBlockHashes(w)
    \/ GetBlocks(w)
    \/ BlockStep(w, blocks)
    \/ BlocksDone(w)
    \/ NewTransactionHashes(w)
    \/ GetTransactions(w)
    \/ TransactionStep(w, transactions)
    \/ TransactionsDone(w)
    \/ Loop(w)

\* The node of the tests: one worker thread.
Next == \E w \in 1 .. num_worker : Step(w, SyncBlocks, SyncTransactions, SyncHashLists)

Spec == Init /\ [][Next]_vars

\* A chain of three valid blocks on top of the genesis block.
OrphanChain ==
    << Block(random_header(7, 0), <<tx1>>),
       Block(random_header(1, 0), <<tx2>>),
       Block(random_header(2, 0), <<>>) >>

OrphanChainBlocks == { OrphanChain[i] : i \in 1 .. Len(OrphanChain) }

InitOrphan == Start(Logged, Unlocked)

\* One worker is sent the blocks of the chain in Blocks messages of one block,
\* in any order and any number of times; the run is recorded.
NextOrphan ==
    \E w \in 1 .. num_worker :
        \/ ReceiveBlocks(w, {1})
        \/ BlockStep(w, OrphanChainBlocks)
        \/ BlocksDone(w)
        \/ Loop(w)

SpecOrphan == InitOrphan /\ [][NextOrphan]_vars

\* ------------------------------------------------------------ locks
\* The node with its worker threads running side by side: taking a lock is a
\* step of its own, and the critical section that follows ends with the guard
\* going out of scope.

ChainSection_in_transactions(w) ==
    \/ pc[w] \in {"NewBlockHashes", "GetBlocks"}
    \/ pc[w] = "Blocks" /\ remaining[w] > 0
    \/ pc[w] = "Transactions" /\ locks.mempool = w

\* worker.rs:90, 105, 133: the handler in hand is about to take the chain lock.
ChainSection(w) ==
    \/ pc[w] \in {"NewBlockHashes", "GetBlocks"}
    \/ pc[w] = "Blocks" /\ remaining[w] > 0

\* worker.rs:176, 245, 260, 285: the handler in hand is about to take the
\* mempool lock; the Blocks handler does so inside the chain lock, once it has
\* inserted the block.
MempoolSection(w) ==
    \/ pc[w] \in {"NewTransactionHashes", "GetTransactions"}
    \/ pc[w] = "Transactions" /\ remaining[w] > 0
    \/ /\ pc[w] = "Blocks"
       /\ locks.chain = w
       /\ NeedsMempool(wrapped_blockchain, block[w][1])

WantsChain(w) == locks.on /\ locks.chain # w /\ ChainSection(w)

WantsMempool(w) == locks.on /\ locks.mempool # w /\ MempoolSection(w)

\* self.wrapped_blockchain.lock(): returns once no thread holds the lock.  The
\* Blocks handler has the block of this turn in hand.
LockChain(w, blocks) ==
    /\ WantsChain(w)
    /\ locks.chain = 0
    /\ locks' = [locks EXCEPT !.chain = w]
    /\ IF pc[w] = "Blocks"
       THEN \E b \in blocks : block' = [block EXCEPT ![w] = <<b>>]
       ELSE UNCHANGED block
    /\ UNCHANGED <<shared, orphanbuffer, pc, hashvec, blockvec_len, remaining,
                   signed_transaction, new_hashes, parent_vec, peer_out, server_out,
                   history>>
    /\ UNCHANGED msg_chan

\* self.wrapped_mempool.lock()
LockMempool(w) ==
    /\ WantsMempool(w)
    /\ locks.mempool = 0
    /\ locks' = [locks EXCEPT !.mempool = w]
    /\ UNCHANGED <<shared, orphanbuffer, pc, hashvec, batch, peer_out, server_out, history>>
    /\ UNCHANGED msg_chan

\* What the peers send to the node whose threads run side by side.
LockBlocks ==
    { Block(random_header(7, 0), <<tx1>>), Block(random_header(7, 0), <<txBadSig>>) }

LockTransactions == { tx1 }

LockHashLists == { <<1>> }

\* The steps of worker w that take a lock.
Acquire(w) == LockChain(w, LockBlocks) \/ LockMempool(w)

\* The steps of worker w inside a critical section.
Critical(w) ==
    \/ NewBlockHashes(w)
    \/ GetBlocks(w)
    \/ BlockStep(w, {block[w][1]})
    \/ NewTransactionHashes(w)
    \/ GetTransactions(w)
    \/ TransactionStep(w, LockTransactions)

\* The steps of worker w outside the locks.
Outside(w) ==
    \/ ReceiveHashes(w, LockHashLists)
    \/ ReceiveBlocks(w, 1 .. MaxBatch)
    \/ ReceiveTransactions(w, 1 .. MaxBatch)
    \/ BlocksDone(w)
    \/ TransactionsDone(w)
    \/ Loop(w)

InitLocks == Start(Unlogged, Lockable)

NextLocks == \E w \in Workers : Acquire(w) \/ Critical(w) \/ Outside(w)

\* A thread inside a critical section keeps running, and a thread that asks
\* for a lock that is free again and again gets it.
SpecLocks ==
    /\ InitLocks
    /\ [][NextLocks]_vars
    /\ \A w \in Workers : WF_vars(Critical(w)) /\ SF_vars(Acquire(w))

\* ------------------------------------------------------------ failures
\* The senders of the inbound queue are gone and the queue is drained: from now
\* on recv returns an error.
Close ==
    /\ msg_chan = "open"
    /\ msg_chan' = "closed"
    /\ UNCHANGED <<shared, orphanbuffer, pc, hashvec, batch, peer_out, server_out,
                   history, locks>>

\* The thread of worker w ends; nothing else of the node changes.
Exit(w) ==
    /\ pc' = [pc EXCEPT ![w] = "exited"]
    /\ UNCHANGED <<shared, orphanbuffer, hashvec, batch, peer_out, server_out,
                   history, locks, msg_chan>>

RecvError_exits_process(w) ==
    /\ pc[w] = "recv"
    /\ msg_chan = "closed"
    /\ pc' = [v \in Workers |-> "exited"]
    /\ UNCHANGED <<shared, orphanbuffer, hashvec, batch, peer_out, server_out,
                   history, locks, msg_chan>>

\* worker.rs:70-74: recv on the closed queue returns an error and the loop
\* breaks.
RecvError(w) ==
    /\ pc[w] = "recv"
    /\ msg_chan = "closed"
    /\ Exit(w)

\* worker.rs:78: the payload does not decode and unwrap panics.
DecodeFailure(w) ==
    /\ pc[w] = "recv"
    /\ msg_chan = "open"
    /\ Exit(w)

InitFailure == Start(Unlogged, Lockable)

NextFailure ==
    \/ Close
    \/ \E w \in Workers :
          \/ RecvError(w)
          \/ DecodeFailure(w)
          \/ Acquire(w)
          \/ Critical(w)
          \/ Outside(w)

SpecFailure == InitFailure /\ [][NextFailure]_vars

\* ------------------------------------------------------------ shared chain
\* Worker::start spawns the workers over one chain and one mempool; each keeps
\* its own orphan buffer.  A worker holds the chain lock from worker.rs:133 to
\* 224, for all it does with one block, so the handling of one block is one
\* step and the steps of the workers interleave block by block.

\* The blocks the peers send: three blocks in a line on the genesis block.
SharedBlocks == OrphanChainBlocks

InitShared == Start(Unlogged, Unlocked)

NextShared ==
    \E w \in Workers :
        \/ ReceiveBlocks(w, 1 .. MaxBatch)
        \/ BlockStep(w, SharedBlocks)
        \/ BlocksDone(w)
        \/ Loop(w)

SpecShared == InitShared /\ [][NextShared]_vars

\* ------------------------------------------------------------ orphan resolution
\* The loop of worker.rs:205-216 on its own: it is started on an orphan buffer,
\* a starting hash and a list of accepted hashes, over a chain.

\* Blocks an orphan buffer may hold: the line on the genesis block and a second
\* child of the genesis block.
ResolveBlocks == OrphanChainBlocks \cup { Block(random_header(7, 1), <<>>) }

\* Keys of an orphan buffer: the hashes of the genesis block and of ResolveBlocks.
ResolveKeys == { hash(genesis_block) } \cup { hash(b) : b \in ResolveBlocks }

\* The chains the loop runs over: the genesis block alone, and with the first
\* and the first two blocks of the line.
ResolveChains ==
    { new_blockchain,
      insert(new_blockchain, OrphanChain[1]),
      insert(insert(new_blockchain, OrphanChain[1]), OrphanChain[2]) }

\* The buffers of at most MaxOrphans entries whose blocks insert can take: the
\* parent of every buffered block has its snapshot in the chain.
ResolveBuffers(blockchain) ==
    LET takes == { b \in ResolveBlocks : ~insert_panics(blockchain, b) }
    IN  UNION { [keys -> takes] :
                  keys \in { k \in SUBSET ResolveKeys : Cardinality(k) <= MaxOrphans } }

InitResolve ==
    \E blockchain \in ResolveChains, b \in ResolveBlocks \cup { genesis_block } :
    \E buffer \in ResolveBuffers(blockchain), hashes \in { <<>>, <<hash(b)>> } :
        /\ wrapped_blockchain = blockchain
        /\ wrapped_mempool = EmptyMap
        /\ orphanbuffer = [w \in Workers |-> IF w = 1 THEN buffer ELSE EmptyMap]
        /\ pc = [w \in Workers |-> IF w = 1 THEN "Blocks" ELSE "recv"]
        /\ hashvec = [w \in Workers |-> <<>>]
        /\ blockvec_len = [w \in Workers |-> IF w = 1 THEN 1 ELSE 0]
        /\ remaining = [w \in Workers |-> IF w = 1 THEN 1 ELSE 0]
        /\ block = [w \in Workers |-> IF w = 1 THEN <<b>> ELSE <<>>]
        /\ signed_transaction = [w \in Workers |-> <<>>]
        /\ new_hashes = [w \in Workers |-> IF w = 1 THEN hashes ELSE <<>>]
        /\ parent_vec = [w \in Workers |-> <<>>]
        /\ peer_out = [w \in Workers |-> <<>>]
        /\ server_out = [w \in Workers |-> <<>>]
        /\ history = Unlogged
        /\ locks = Unlocked
        /\ msg_chan = "open"

\* worker.rs:205-216: the loop, from the hash of the block in hand.
OrphanResolution(w) ==
    /\ pc[w] = "Blocks"
    /\ remaining[w] = 1
    /\ block[w] # <<>>
    /\ LET r == resolve_orphans(wrapped_blockchain, orphanbuffer[w], new_hashes[w],
                                hash(block[w][1]))
       IN  /\ wrapped_blockchain' = r.blockchain
           /\ orphanbuffer' = [orphanbuffer EXCEPT ![w] = r.orphanbuffer]
           /\ new_hashes' = [new_hashes EXCEPT ![w] = r.new_hashes]
           /\ pc' = [pc EXCEPT ![w] = IF r.panicked THEN "exited" ELSE @]
    /\ remaining' = [remaining EXCEPT ![w] = 0]
    /\ UNCHANGED <<wrapped_mempool, hashvec, blockvec_len, block, signed_transaction,
                   parent_vec, peer_out, server_out, history, locks, msg_chan>>

NextResolve == \E w \in 1 .. num_worker : OrphanResolution(w)

SpecResolve == InitResolve /\ [][NextResolve]_vars

\* ------------------------------------------------------------ properties
GenesisHash == HeaderDigest(genesis_header)

Range(seq) == { seq[i] : i \in 1 .. Len(seq) }

\* The blocks the handlers have stored: every stored block but the genesis block.
StoredByHandlers ==
    { wrapped_blockchain.hash_map[h] :
          h \in (DOMAIN wrapped_blockchain.hash_map) \ {GenesisHash} }

\* The hashes a worker has accepted in the Blocks message in hand, or broadcast
\* for it.
AcceptedHashes(w) ==
    (IF pc[w] = "Blocks" THEN Range(new_hashes[w]) ELSE {})
    \cup UNION { Range(server_out[w][i].payload) :
                     i \in { j \in 1 .. Len(server_out[w]) :
                                 server_out[w][j].type = "NewBlockHashes" } }

PowFails(b) == hash(b) > get_difficulty(b)

\* A transaction is valid against a state snapshot: its signature is the
\* signer's over this transaction, the sender is in the snapshot, the nonce is
\* the snapshot's plus one and the value is within the balance.
ValidAgainst(snapshot, stx) ==
    LET sender == AddressOf(stx.signer_public_key)
    IN  /\ stx.signature_vector = sign(stx.t, stx.signer_public_key)
        /\ sender \in DOMAIN snapshot
        /\ stx.t.account_nonce = snapshot[sender][1] + 1
        /\ stx.t.value <= snapshot[sender][2]

\* A step of worker w that is one turn of the loop over the blocks of a batch.
BlockTurn(w) == pc[w] = "Blocks" /\ remaining'[w] = remaining[w] - 1

\* C1: validation soundness.  No block whose header hash is greater than its
\* difficulty is ever stored by a handler, held in a worker's orphan buffer, or
\* listed among the hashes a worker accepts and broadcasts in NewBlockHashes,
\* whatever its transactions are.
C1_ValidationSoundness ==
    /\ \A b \in StoredByHandlers : ~PowFails(b)
    /\ \A w \in Workers :
        /\ \A k \in DOMAIN orphanbuffer[w] : ~PowFails(orphanbuffer[w][k])
        /\ \A hd \in Headers :
               HeaderDigest(hd) > hd.difficulty => HeaderDigest(hd) \notin AcceptedHashes(w)

\* A block that fails its proof of work, with a valid transaction and a stored
\* parent, has just been handled in a batch.
C1_Witness ==
    /\ pc[1] = "Blocks"
    /\ block[1] = <<Block(random_header(7, 2), <<tx1>>)>>
    /\ PowFails(block[1][1])
    /\ get_parent(block[1][1]) \in DOMAIN wrapped_blockchain.hash_map

\* C2: every stored block other than the genesis block has its parent's state
\* snapshot in the chain and only transactions that are valid against that
\* snapshot.
C2_StoredTransactionsValid ==
    \A b \in StoredByHandlers :
        /\ get_parent(b) \in DOMAIN wrapped_blockchain.state_map
        /\ \A i \in 1 .. Len(b.content) :
               ValidAgainst(wrapped_blockchain.state_map[get_parent(b)], b.content[i])

\* Two blocks with transactions are stored, one the child of the other.
C2_Witness ==
    /\ 1 \in DOMAIN wrapped_blockchain.hash_map
    /\ 2 \in DOMAIN wrapped_blockchain.hash_map
    /\ wrapped_blockchain.hash_map[1].content = <<tx1>>
    /\ wrapped_blockchain.hash_map[2].content = <<tx2>>

\* C3: nonce monotonicity.  In every stored block the transactions of each
\* sender carry successive nonces starting right after the sender's nonce in
\* the parent's snapshot: the k-th transaction of a sender in the block has the
\* snapshot's nonce plus k.
C3_NonceMonotonicity ==
    \A b \in StoredByHandlers :
        \A i \in 1 .. Len(b.content) :
            LET sender == AddressOf(b.content[i].signer_public_key)
                snapshot == wrapped_blockchain.state_map[get_parent(b)]
                earlier == { j \in 1 .. (i - 1) :
                                 AddressOf(b.content[j].signer_public_key) = sender }
            IN  /\ sender \in DOMAIN snapshot
                /\ b.content[i].t.account_nonce
                       = snapshot[sender][1] + 1 + Cardinality(earlier)

\* The first n blocks of the chain, each in a message of its own, last block
\* first.
ReverseDelivery(n) == [i \in 1 .. n |-> <<OrphanChain[n + 1 - i]>>]

\* C4: orphan resolution completeness.  When the first n blocks of a chain of
\* valid blocks on top of a stored block have been delivered to one worker in
\* separate Blocks messages in reverse order and the message with the first
\* block has been handled, all n blocks are stored, all n hashes have been
\* broadcast in NewBlockHashes and the worker's orphan buffer holds none of the
\* blocks.
C4_OrphanResolutionComplete ==
    \A n \in 1 .. Len(OrphanChain) :
        (pc[1] = "done" /\ history.delivered = ReverseDelivery(n))
        => \A i \in 1 .. n :
               /\ hash(OrphanChain[i]) \in DOMAIN wrapped_blockchain.hash_map
               /\ wrapped_blockchain.hash_map[hash(OrphanChain[i])] = OrphanChain[i]
               /\ hash(OrphanChain[i]) \in history.reported
               /\ \A k \in DOMAIN orphanbuffer[1] : orphanbuffer[1][k] # OrphanChain[i]

\* C5: orphan buffering.  When a worker handles a block that passes its proof
\* of work, is not stored and whose parent is not stored, the block is in the
\* worker's orphan buffer under its parent's hash afterwards, the chain is as
\* it was, and the parent's hash is among the hashes that the GetBlocks written
\* at the end of the batch carries.
C5_OrphanBuffered ==
    [][\A w \in Workers :
        /\ BlockTurn(w) =>
             LET b == block'[w][1]
             IN  ( /\ ~PowFails(b)
                   /\ hash(b) \notin DOMAIN wrapped_blockchain.hash_map
                   /\ get_parent(b) \notin DOMAIN wrapped_blockchain.hash_map )
                 => /\ get_parent(b) \in DOMAIN orphanbuffer'[w]
                    /\ orphanbuffer'[w][get_parent(b)] = b
                    /\ wrapped_blockchain' = wrapped_blockchain
                    /\ get_parent(b) \in Range(parent_vec'[w])
        /\ (pc[w] = "Blocks" /\ pc'[w] = "done" /\ parent_vec[w] # <<>>)
             => peer_out'[w] = <<Message("GetBlocks", parent_vec[w])>>
      ]_vars

\* C6: idempotence.  Handling a block that an earlier delivery has stored
\* leaves the chain as it is and adds nothing to the hashes the worker has
\* accepted; no hash is accepted twice in one batch, and the broadcast at the
\* end of the batch lists the accepted hashes and nothing else.
C6_Idempotence ==
    /\ [](\A w \in Workers :
            pc[w] = "Blocks" =>
                \A i, j \in 1 .. Len(new_hashes[w]) :
                    new_hashes[w][i] = new_hashes[w][j] => i = j)
    /\ [][\A w \in Workers :
            /\ BlockTurn(w) =>
                 ( block'[w][1] \in StoredByHandlers
                   => /\ wrapped_blockchain' = wrapped_blockchain
                      /\ new_hashes'[w] = new_hashes[w] )
            /\ (pc[w] = "Blocks" /\ pc'[w] = "done")
                 => server_out'[w] \in { <<>>, <<Message("NewBlockHashes", new_hashes[w])>> }
         ]_vars

\* One Blocks message has delivered the same valid block twice: the first turn
\* stored it, the second found it stored.
C6_Witness ==
    /\ pc[1] = "Blocks"
    /\ blockvec_len[1] = 2
    /\ remaining[1] = 0
    /\ block[1] = <<Block(random_header(7, 0), <<tx1>>)>>
    /\ block[1][1] \in StoredByHandlers
    /\ new_hashes[1] = <<hash(block[1][1])>>
    /\ parent_vec[1] = <<get_parent(block[1][1])>>

\* sub lists, in order, the value What(seq[i]) of every position i of idx.
ListsPositions(sub, seq, idx, What(_)) ==
    /\ Len(sub) = Cardinality(idx)
    /\ \A i \in idx : sub[Cardinality({ j \in idx : j <= i })] = What(seq[i])

\* C7: diff-correctness.  Handling NewBlockHashes(H) writes to the peer one
\* GetBlocks with exactly the hashes of H that are not stored, in the order of
\* H, writes nothing when every hash of H is stored, broadcasts nothing and
\* leaves the chain as it is.
C7_NewBlockHashesDiff ==
    [][\A w \in Workers :
        (pc[w] = "NewBlockHashes" /\ pc'[w] = "done") =>
            LET unknown == { i \in 1 .. Len(hashvec[w]) :
                                 hashvec[w][i] \notin DOMAIN wrapped_blockchain.hash_map }
            IN  /\ wrapped_blockchain' = wrapped_blockchain
                /\ server_out'[w] = <<>>
                /\ IF unknown = {}
                   THEN peer_out'[w] = <<>>
                   ELSE /\ Len(peer_out'[w]) = 1
                        /\ peer_out'[w][1].type = "GetBlocks"
                        /\ ListsPositions(peer_out'[w][1].payload, hashvec[w], unknown,
                                          LAMBDA h : h)
      ]_vars

\* NewBlockHashes with a stored and an unknown hash has been answered with
\* GetBlocks for the unknown one.
C7_Witness ==
    /\ pc[1] = "done"
    /\ hashvec[1] = <<1, 3>>
    /\ 1 \in DOMAIN wrapped_blockchain.hash_map
    /\ peer_out[1] = <<Message("GetBlocks", <<3>>)>>

\* C8: handling GetBlocks(H) writes to the peer one Blocks with exactly the
\* stored blocks of the hashes of H that are stored, in the order of H, each of
\* them hashing to the hash it was asked by, writes nothing when no hash of H is
\* stored, broadcasts nothing and leaves the chain as it is.
C8_GetBlocksReply ==
    [][\A w \in Workers :
        (pc[w] = "GetBlocks" /\ pc'[w] = "done") =>
            LET known == { i \in 1 .. Len(hashvec[w]) :
                               hashvec[w][i] \in DOMAIN wrapped_blockchain.hash_map }
            IN  /\ wrapped_blockchain' = wrapped_blockchain
                /\ server_out'[w] = <<>>
                /\ IF known = {}
                   THEN peer_out'[w] = <<>>
                   ELSE /\ Len(peer_out'[w]) = 1
                        /\ peer_out'[w][1].type = "Blocks"
                        /\ ListsPositions(peer_out'[w][1].payload, hashvec[w], known,
                                          LAMBDA h : wrapped_blockchain.hash_map[h])
                        /\ ListsPositions([k \in 1 .. Len(peer_out'[w][1].payload) |->
                                               hash(peer_out'[w][1].payload[k])],
                                          hashvec[w], known, LAMBDA h : h)
      ]_vars

\* GetBlocks for the genesis hash has been answered with the genesis block.
C8_Witness ==
    /\ pc[1] = "done"
    /\ hashvec[1] = <<GenesisHash>>
    /\ peer_out[1] = <<Message("Blocks", <<genesis_block>>)>>

\* The block passes its proof of work, is not stored, its parent is stored and
\* all its transactions are valid against the parent's snapshot.
Admissible(b) ==
    /\ ~PowFails(b)
    /\ hash(b) \notin DOMAIN wrapped_blockchain.hash_map
    /\ get_parent(b) \in DOMAIN wrapped_blockchain.hash_map
    /\ \A i \in 1 .. Len(b.content) :
           ValidAgainst(wrapped_blockchain.state_map[get_parent(b)], b.content[i])

\* The block passes its proof of work, is not stored, its parent is stored and
\* one of its transactions is not valid against the parent's snapshot.
Inadmissible(b) ==
    /\ ~PowFails(b)
    /\ hash(b) \notin DOMAIN wrapped_blockchain.hash_map
    /\ get_parent(b) \in DOMAIN wrapped_blockchain.hash_map
    /\ \E i \in 1 .. Len(b.content) :
           ~ValidAgainst(wrapped_blockchain.state_map[get_parent(b)], b.content[i])

IsPrefix(s, t) == Len(s) <= Len(t) /\ \A i \in 1 .. Len(s) : s[i] = t[i]

\* C9: admission and relay.  Handling a block that passes its proof of work,
\* is not stored, has a stored parent and only valid transactions stores the
\* block and accepts its hash; the handler goes on to the end of the batch,
\* stored blocks stay stored and accepted hashes stay accepted until then, and
\* then one NewBlockHashes with the accepted hashes is broadcast.  For a batch of that one block the accepted
\* hashes are the block's hash alone.
C9_AdmissionAndRelay ==
    [][/\ \A h \in DOMAIN wrapped_blockchain.hash_map :
            /\ h \in DOMAIN wrapped_blockchain'.hash_map
            /\ wrapped_blockchain'.hash_map[h] = wrapped_blockchain.hash_map[h]
       /\ \A w \in Workers :
            /\ BlockTurn(w) =>
                 LET b == block'[w][1]
                 IN  Admissible(b)
                     => /\ hash(b) \in DOMAIN wrapped_blockchain'.hash_map
                        /\ wrapped_blockchain'.hash_map[hash(b)] = b
                        /\ hash(b) \in Range(new_hashes'[w])
                        /\ blockvec_len[w] = 1 => new_hashes'[w] = <<hash(b)>>
            /\ BlockTurn(w) => pc'[w] = "Blocks"
            /\ (pc[w] = "Blocks" /\ pc'[w] = "Blocks")
                 => IsPrefix(new_hashes[w], new_hashes'[w])
            /\ (pc[w] = "Blocks" /\ pc'[w] = "done" /\ new_hashes[w] # <<>>)
                 => server_out'[w] = <<Message("NewBlockHashes", new_hashes[w])>>
      ]_vars

\* Blocks with one valid child of the tip has been handled: the block is stored
\* and NewBlockHashes with its hash alone has been broadcast.
C9_Witness ==
    /\ pc[1] = "done"
    /\ blockvec_len[1] = 1
    /\ block[1] = <<Block(random_header(7, 0), <<tx1>>)>>
    /\ wrapped_blockchain.tip = hash(block[1][1])
    /\ wrapped_blockchain.hash_map[hash(block[1][1])] = block[1][1]
    /\ server_out[1] = <<Message("NewBlockHashes", <<hash(block[1][1])>>)>>

\* C10: rejection leaves the state unchanged.  Handling a block that passes its
\* proof of work, is not stored, has a stored parent and a transaction that is
\* not valid leaves the chain, the mempool and the orphan buffers as they were
\* and accepts no hash; a batch that accepted no hash broadcasts nothing.
C10_RejectionUnchanged ==
    [][\A w \in Workers :
        /\ BlockTurn(w) =>
             LET b == block'[w][1]
             IN  Inadmissible(b)
                 => /\ wrapped_blockchain' = wrapped_blockchain
                    /\ wrapped_mempool' = wrapped_mempool
                    /\ orphanbuffer' = orphanbuffer
                    /\ new_hashes'[w] = new_hashes[w]
                    /\ hash(b) \notin Range(new_hashes'[w])
        /\ (pc[w] = "Blocks" /\ pc'[w] = "done" /\ new_hashes[w] = <<>>)
             => server_out'[w] = <<>>
      ]_vars

\* Blocks with one block whose transaction has a bad signature has been handled
\* while the mempool held a transaction: nothing was stored or broadcast.
C10_Witness ==
    /\ pc[1] = "done"
    /\ blockvec_len[1] = 1
    /\ block[1] = <<Block(random_header(7, 0), <<txBadSig>>)>>
    /\ hash(block[1][1]) \notin DOMAIN wrapped_blockchain.hash_map
    /\ DOMAIN wrapped_blockchain.hash_map = {GenesisHash}
    /\ wrapped_mempool # EmptyMap
    /\ server_out[1] = <<>>

\* Worker w's step is a turn of the loop over the blocks that admits its block.
Admits(w) ==
    /\ BlockTurn(w)
    /\ hash(block'[w][1]) \notin DOMAIN wrapped_blockchain.hash_map
    /\ hash(block'[w][1]) \in DOMAIN wrapped_blockchain'.hash_map

\* The senders of the transactions of a block.
Senders(b) == { AddressOf(b.content[i].signer_public_key) : i \in 1 .. Len(b.content) }

\* The nonce of sender s in the snapshot of the tip of chain c.
TipNonce(c, s) == c.state_map[c.tip][s][1]

\* The mempool entries of sender s.
EntriesOf(mempool, s) ==
    { h \in DOMAIN mempool : AddressOf(mempool[h].signer_public_key) = s }

\* C11 as stated: mempool eviction.  When a block with a transaction of sender
\* S is admitted, every mempool transaction of S with a nonce below the nonce of
\* S in the new tip's snapshot has left the mempool, and every transaction of S
\* that was in the mempool with a nonce at or above it is still there.
C11_MempoolEviction ==
    [][\A w \in Workers :
        Admits(w) =>
            \A s \in Senders(block'[w][1]) \cap DOMAIN wrapped_blockchain'.state_map[wrapped_blockchain'.tip] :
                \A h \in EntriesOf(wrapped_mempool, s) :
                    IF wrapped_mempool[h].t.account_nonce < TipNonce(wrapped_blockchain', s)
                    THEN h \notin DOMAIN wrapped_mempool'
                    ELSE h \in DOMAIN wrapped_mempool' /\ wrapped_mempool'[h] = wrapped_mempool[h]
      ]_vars

\* C11 amended: as C11, but the transactions that stay are those with a nonce at
\* or above the new nonce that the admitted block does not contain; the block's
\* own transactions leave the mempool, and the step adds nothing to the mempool.
C11_MempoolEvictionAmended ==
    [][\A w \in Workers :
        Admits(w) =>
            /\ DOMAIN wrapped_mempool' \subseteq DOMAIN wrapped_mempool
            /\ \A h \in DOMAIN wrapped_mempool :
                   wrapped_mempool[h] \in Range(block'[w][1].content)
                   => h \notin DOMAIN wrapped_mempool'
            /\ \A s \in Senders(block'[w][1]) \cap DOMAIN wrapped_blockchain'.state_map[wrapped_blockchain'.tip] :
                \A h \in EntriesOf(wrapped_mempool, s) :
                    IF wrapped_mempool[h].t.account_nonce < TipNonce(wrapped_blockchain', s)
                    THEN h \notin DOMAIN wrapped_mempool'
                    ELSE wrapped_mempool[h] \notin Range(block'[w][1].content)
                         => ( h \in DOMAIN wrapped_mempool'
                              /\ wrapped_mempool'[h] = wrapped_mempool[h] )
      ]_vars

\* A block with the sender's first transaction has just been admitted and the
\* sender's second transaction, which was in the mempool, is still there.
C11_Witness ==
    /\ pc[1] = "Blocks"
    /\ block[1] = <<Block(random_header(7, 0), <<tx1>>)>>
    /\ wrapped_blockchain.tip = hash(block[1][1])
    /\ new_hashes[1] = <<hash(block[1][1])>>
    /\ TipNonce(wrapped_blockchain, "A") = 1
    /\ DOMAIN wrapped_mempool = {TxDigest(tx2)}

\* The hashes of the blocks on the path from the block of hash h back to the
\* genesis block in chain c.
RECURSIVE PathFrom(_, _)
PathFrom(c, h) ==
    IF h \notin DOMAIN c.hash_map THEN {}
    ELSE {h} \cup PathFrom(c, get_parent(c.hash_map[h]))

\* The transactions of the blocks on the path from the genesis block to the tip.
Confirmed(c) ==
    UNION { Range(c.hash_map[h].content) : h \in PathFrom(c, c.tip) }

\* No worker is inside a handler.
Quiescent == \A w \in Workers : pc[w] \in {"recv", "done"}

\* C12: mempool invariant.  Whenever the workers have handled the messages they
\* took, no mempool entry is a transaction of a block on the path from the
\* genesis block to the tip.
C12_MempoolUnconfirmed ==
    Quiescent =>
        \A h \in DOMAIN wrapped_mempool : wrapped_mempool[h] \notin Confirmed(wrapped_blockchain)

\* A step of worker w that is one turn of the loop over the transactions of a
\* batch.
TransactionTurn(w) == pc[w] = "Transactions" /\ remaining'[w] = remaining[w] - 1

\* The signature of the signed transaction is its signer's over its transaction.
WellSigned(stx) == stx.signature_vector = sign(stx.t, stx.signer_public_key)

\* C13: transaction admission.  A turn of the Transactions handler puts its
\* transaction into the mempool, under its hash, and records the hash exactly
\* when the signature is good and the hash is not in the mempool, and changes
\* nothing otherwise; the entries the mempool had stay as they were, no
\* transaction with a bad signature is ever in the mempool, no hash is recorded
\* twice in a batch, and the end of the batch broadcasts one
\* NewTransactionHashes with the recorded hashes, or nothing when there is none.
C13_TransactionAdmission ==
    /\ [](/\ \A h \in DOMAIN wrapped_mempool :
                WellSigned(wrapped_mempool[h]) /\ TxDigest(wrapped_mempool[h]) = h
          /\ \A w \in Workers :
                pc[w] = "Transactions" =>
                    \A i, j \in 1 .. Len(new_hashes[w]) :
                        new_hashes[w][i] = new_hashes[w][j] => i = j)
    /\ [][\A w \in Workers :
            /\ TransactionTurn(w) =>
                 LET t == signed_transaction'[w][1]
                     d == TxDigest(t)
                 IN  /\ \A h \in DOMAIN wrapped_mempool :
                            h \in DOMAIN wrapped_mempool'
                            /\ wrapped_mempool'[h] = wrapped_mempool[h]
                     /\ wrapped_blockchain' = wrapped_blockchain
                     /\ IF WellSigned(t) /\ d \notin DOMAIN wrapped_mempool
                        THEN /\ DOMAIN wrapped_mempool' = DOMAIN wrapped_mempool \cup {d}
                             /\ wrapped_mempool'[d] = t
                             /\ new_hashes'[w] = Append(new_hashes[w], d)
                        ELSE /\ wrapped_mempool' = wrapped_mempool
                             /\ new_hashes'[w] = new_hashes[w]
            /\ (pc[w] = "Transactions" /\ pc'[w] = "done")
                 => /\ wrapped_mempool' = wrapped_mempool
                    /\ peer_out'[w] = <<>>
                    /\ server_out'[w] =
                         IF new_hashes[w] = <<>> THEN <<>>
                         ELSE <<Message("NewTransactionHashes", new_hashes[w])>>
         ]_vars

\* Transactions with a badly signed transaction and a well signed one has been
\* handled: only the second is in the mempool and in the broadcast.
C13_Witness ==
    /\ pc[1] = "done"
    /\ blockvec_len[1] = 2
    /\ signed_transaction[1] = <<txBadSig>>
    /\ DOMAIN wrapped_mempool = {TxDigest(tx2)}
    /\ server_out[1] = <<Message("NewTransactionHashes", <<TxDigest(tx2)>>)>>

\* Every worker of D waits for a lock that a worker of D holds.
WaitCycle(D) ==
    \A w \in D :
        \/ WantsChain(w) /\ locks.chain \in D
        \/ WantsMempool(w) /\ locks.mempool \in D

C15_DuplicateNoOp ==
    [][\A w \in Workers :
        (BlockTurn(w) /\ hash(block'[w][1]) \in DOMAIN wrapped_blockchain.hash_map)
        => /\ wrapped_blockchain' = wrapped_blockchain
           /\ wrapped_mempool' = wrapped_mempool
           /\ orphanbuffer' = orphanbuffer
           /\ parent_vec'[w] = parent_vec[w]
           /\ new_hashes'[w] = new_hashes[w]
      ]_vars

\* C16: failure isolation.  A worker's thread ends only where it dequeues, on a
\* payload that does not decode or on the closed queue; the step that ends it
\* changes neither the chain, the mempool, the orphan buffers, the locks nor
\* any other worker; a worker whose thread has ended holds no lock; and a
\* worker that waits for a message while the queue is open can take a message
\* whatever has happened to the other workers.
C16_FailureIsolation ==
    /\ [](\A w \in Workers :
            /\ pc[w] = "exited" => (locks.chain # w /\ locks.mempool # w)
            /\ (pc[w] = "recv" /\ msg_chan = "open")
                 => ENABLED ReceiveBlocks(w, 1 .. MaxBatch))
    /\ [][\A w \in Workers :
            (pc[w] # "exited" /\ pc'[w] = "exited")
            => /\ pc[w] = "recv"
               /\ locks.chain # w /\ locks.mempool # w
               /\ UNCHANGED <<wrapped_blockchain, wrapped_mempool, orphanbuffer, locks>>
               /\ \A v \in Workers \ {w} : pc'[v] = pc[v]
         ]_vars

\* Worker 1 has ended and worker 2 has since admitted a block and holds the
\* chain lock for the next one.
C16_Witness ==
    /\ pc[1] = "exited"
    /\ pc[2] = "Blocks"
    /\ locks.chain = 2
    /\ new_hashes[2] = <<1>>
    /\ 1 \in DOMAIN wrapped_blockchain.hash_map

\* C17: concurrent admission.  With the workers running side by side, a stored
\* block is never stored again or replaced, and a worker records a hash as
\* accepted only in the step in which it stores the block of that hash; so a
\* block that two workers are handed is stored once and accepted by one of
\* them, and the broadcast at the end of a batch carries what that worker
\* accepted.
C17_ConcurrentAdmission ==
    /\ [](\A w, v \in Workers :
            (w # v /\ pc[w] = "Blocks" /\ pc[v] = "Blocks")
            => Range(new_hashes[w]) \cap Range(new_hashes[v]) = {})
    /\ [][/\ \A h \in DOMAIN wrapped_blockchain.hash_map :
                /\ h \in DOMAIN wrapped_blockchain'.hash_map
                /\ wrapped_blockchain'.hash_map[h] = wrapped_blockchain.hash_map[h]
                /\ wrapped_blockchain'.state_map[h] = wrapped_blockchain.state_map[h]
          /\ \A w \in Workers :
                /\ (pc[w] = "Blocks" /\ pc'[w] = "Blocks")
                     => \/ new_hashes'[w] = new_hashes[w]
                        \/ /\ new_hashes'[w] = Append(new_hashes[w], hash(block'[w][1]))
                           /\ hash(block'[w][1]) \notin DOMAIN wrapped_blockchain.hash_map
                           /\ wrapped_blockchain'.hash_map =
                                 Put(wrapped_blockchain.hash_map,
                                     hash(block'[w][1]), block'[w][1])
                /\ (pc[w] = "Blocks" /\ pc'[w] = "done")
                     => server_out'[w] =
                          IF new_hashes[w] = <<>> THEN <<>>
                          ELSE <<Message("NewBlockHashes", new_hashes[w])>>
         ]_vars

\* Both workers have handled a Blocks message with the same valid child of the
\* genesis block: worker 1 stored and accepted it, worker 2 found it stored.
C17_Witness ==
    /\ \A w \in Workers :
          /\ pc[w] = "Blocks"
          /\ blockvec_len[w] = 1
          /\ remaining[w] = 0
          /\ block[w] = <<Block(random_header(7, 0), <<tx1>>)>>
    /\ wrapped_blockchain.hash_map[1] = block[1][1]
    /\ new_hashes[1] = <<1>>
    /\ new_hashes[2] = <<>>

\* C18: relay only stored blocks.  Every hash that a NewBlockHashes broadcast
\* of a worker carries is the hash of a stored block that passes its proof of
\* work; while a worker is in the loop over the blocks of a batch it has sent
\* nothing, and the step that ends the batch comes when no block of the batch
\* is left and sends at most one GetBlocks to the peer and at most one
\* NewBlockHashes to everyone.
C18_RelayStored ==
    /\ [](\A w \in Workers :
            /\ \A i \in 1 .. Len(server_out[w]) :
                   server_out[w][i].type = "NewBlockHashes"
                   => \A h \in Range(server_out[w][i].payload) :
                          /\ h \in DOMAIN wrapped_blockchain.hash_map
                          /\ hash(wrapped_blockchain.hash_map[h]) = h
                          /\ ~PowFails(wrapped_blockchain.hash_map[h])
            /\ pc[w] = "Blocks" => (peer_out[w] = <<>> /\ server_out[w] = <<>>))
    /\ [][\A w \in Workers :
            (pc[w] = "Blocks" /\ pc'[w] = "done")
            => /\ remaining[w] = 0
               /\ Len(peer_out'[w]) <= 1
               /\ Len(server_out'[w]) <= 1
               /\ \A i \in 1 .. Len(peer_out'[w]) : peer_out'[w][i].type = "GetBlocks"
               /\ \A i \in 1 .. Len(server_out'[w]) :
                      server_out'[w][i].type = "NewBlockHashes"
         ]_vars

\* A Blocks message with a valid block and its valid child has been handled:
\* one broadcast carries both hashes and both blocks are stored.
C18_Witness ==
    /\ pc[1] = "done"
    /\ blockvec_len[1] = 2
    /\ server_out[1] = <<Message("NewBlockHashes", <<1, 2>>)>>
    /\ {1, 2} \subseteq DOMAIN wrapped_blockchain.hash_map

\* C19: parent closure of the chain.  With two workers on one chain, every
\* stored block other than the genesis block has its parent stored, and no
\* worker dies in insert for want of the parent's snapshot; a step that stores
\* the block it handles finds the parent of that block stored, and the step that
\* handles a block with a valid proof of work and an unknown parent, orphan
\* resolution included, leaves the chain as it was.
C19_ParentClosure ==
    /\ [](/\ \A h \in DOMAIN wrapped_blockchain.hash_map :
                \/ h = GenesisHash
                \/ get_parent(wrapped_blockchain.hash_map[h])
                       \in DOMAIN wrapped_blockchain.hash_map
          /\ DOMAIN wrapped_blockchain.state_map = DOMAIN wrapped_blockchain.hash_map
          /\ \A w \in Workers : pc[w] # "exited")
    /\ [][/\ \A w \in Workers :
                (/\ BlockTurn(w)
                 /\ hash(block'[w][1]) \notin DOMAIN wrapped_blockchain.hash_map
                 /\ hash(block'[w][1]) \in DOMAIN wrapped_blockchain'.hash_map)
                => parent_stored(wrapped_blockchain, block'[w][1])
          /\ \A w \in Workers :
                (/\ BlockTurn(w)
                 /\ pow_passed(block'[w][1])
                 /\ ~parent_stored(wrapped_blockchain, block'[w][1]))
                => wrapped_blockchain' = wrapped_blockchain
         ]_vars

\* One worker has stored the first block of the line; the other, with a block
\* in its orphan buffer, has just handled the third block, whose parent is not
\* stored.
C19_Witness ==
    /\ 1 \in DOMAIN wrapped_blockchain.hash_map
    /\ 2 \notin DOMAIN wrapped_blockchain.hash_map
    /\ block[2] = <<OrphanChain[3]>>
    /\ DOMAIN orphanbuffer[2] # {}
    /\ DOMAIN orphanbuffer[1] = {}
    /\ new_hashes[1] = <<1>>

\* The hashes a step has appended to the accepted hashes of worker w.
Appended(w) == SubSeq(new_hashes'[w], Len(new_hashes[w]) + 1, Len(new_hashes'[w]))

\* The hash the i-th iteration of a resolution starts from, when the loop starts
\* from start and has appended hs.
Current(start, hs, i) == IF i = 1 THEN start ELSE hs[i - 1]

C21_TransactionHashesReply ==
    [][\A w \in Workers :
        /\ (pc[w] = "NewTransactionHashes" /\ pc'[w] = "done") =>
              LET unknown == { i \in 1 .. Len(hashvec[w]) :
                                   hashvec[w][i] \notin DOMAIN wrapped_mempool }
              IN  /\ wrapped_mempool' = wrapped_mempool
                  /\ wrapped_blockchain' = wrapped_blockchain
                  /\ server_out'[w] = <<>>
                  /\ IF unknown = {}
                     THEN peer_out'[w] = <<>>
                     ELSE /\ Len(peer_out'[w]) = 1
                          /\ peer_out'[w][1].type = "GetTransactions"
                          /\ ListsPositions(peer_out'[w][1].payload, hashvec[w], unknown,
                                            LAMBDA h : h)
        /\ (pc[w] = "GetTransactions" /\ pc'[w] = "done") =>
              LET known == { i \in 1 .. Len(hashvec[w]) :
                                 hashvec[w][i] \in DOMAIN wrapped_mempool }
              IN  /\ wrapped_mempool' = wrapped_mempool
                  /\ wrapped_blockchain' = wrapped_blockchain
                  /\ server_out'[w] = <<>>
                  /\ IF known = {}
                     THEN peer_out'[w] = <<>>
                     ELSE /\ Len(peer_out'[w]) = 1
                          /\ peer_out'[w][1].type = "Transactions"
                          /\ ListsPositions(peer_out'[w][1].payload, hashvec[w], known,
                                            LAMBDA h : wrapped_mempool[h])
      ]_vars

\* With the first transaction in the mempool and the second not,
\* NewTransactionHashes for both has been answered with GetTransactions for the
\* second.
C21_Witness ==
    /\ pc[1] = "done"
    /\ hashvec[1] = <<TxDigest(tx1), TxDigest(tx2)>>
    /\ DOMAIN wrapped_mempool = { TxDigest(tx1) }
    /\ peer_out[1] = <<Message("GetTransactions", <<TxDigest(tx2)>>)>>

====
